---- MODULE Spec2Model ----
(***************************************************************************)
(* Alias-to-relative import migration (mowgliph/migration-node).           *)
(*                                                                         *)
(* Three scripts are modelled:                                             *)
(*   "A"  src/migrate-paths.js                  (migration run)            *)
(*   "N"  src/test-migration-node.mjs:134-395   (migrate-paths-node run)   *)
(*   "T"  src/test-migration-node.mjs:1-133     (dry run of one file)      *)
(*                                                                         *)
(* Text and paths are sequences of one-character strings, so that the      *)
(* regular expressions and node's POSIX path arithmetic are computed       *)
(* character by character, as the scripts compute them.  No import path   *)
(* holds a '$' (String.replace patterns) and the host is POSIX.            *)
(***************************************************************************)
EXTENDS Integers, Sequences, FiniteSets, TLC

(***************************************************************************)
(* Characters and strings                                                  *)
(***************************************************************************)
Quotes == {"'", "\""}

Space == {" ", "\n", "\t"}

Lower == {"a","b","c","d","e","f","g","h","i","j","k","l","m",
          "n","o","p","q","r","s","t","u","v","w","x","y","z"}

Upper == {"A","B","C","D","E","F","G","H","I","J","K","L","M",
          "N","O","P","Q","R","S","T","U","V","W","X","Y","Z"}

Digit == {"0","1","2","3","4","5","6","7","8","9"}

Word == Lower \cup Upper \cup Digit \cup {"_"}

Last(s) == s[Len(s)]

From(s, i) == SubSeq(s, i, Len(s))

startsWith(s, p) == Len(p) <= Len(s) /\ SubSeq(s, 1, Len(p)) = p

endsWith(s, p) == Len(p) <= Len(s) /\ SubSeq(s, Len(s) - Len(p) + 1, Len(s)) = p

\* lit occurs in s at position i
At(s, i, lit) == i >= 1 /\ i + Len(lit) - 1 <= Len(s) /\ SubSeq(s, i, i + Len(lit) - 1) = lit

\* first position >= i of s whose character is outside cls (Len(s)+1 if none)
SkipIn(s, i, cls) ==
  IF \E j \in i..Len(s) : s[j] \notin cls
  THEN CHOOSE j \in i..Len(s) : s[j] \notin cls /\ \A k \in i..(j-1) : s[k] \in cls
  ELSE Len(s) + 1

\* first position >= i of s whose character is in cls (Len(s)+1 if none)
SkipNotIn(s, i, cls) ==
  IF \E j \in i..Len(s) : s[j] \in cls
  THEN CHOOSE j \in i..Len(s) : s[j] \in cls /\ \A k \in i..(j-1) : s[k] \notin cls
  ELSE Len(s) + 1

\* first position >= i at which lit occurs in s (0 if none): String.prototype.indexOf
IndexOf(s, lit, i) ==
  IF \E j \in i..Len(s) : At(s, j, lit)
  THEN CHOOSE j \in i..Len(s) : At(s, j, lit) /\ \A k \in i..(j-1) : ~At(s, k, lit)
  ELSE 0

Contains(s, lit) == IndexOf(s, lit, 1) # 0

\* s with the Len(pat) characters at i replaced by rep (s itself when i = 0)
spliceAt(s, i, pat, rep) ==
  IF i = 0 THEN s ELSE SubSeq(s, 1, i - 1) \o rep \o From(s, i + Len(pat))

\* String.prototype.replace(pattern, replacement) with a string pattern: the first
\* occurrence only (the replacement strings of the model hold no '$' pattern)
replaceFirst(s, pat, rep) == spliceAt(s, IndexOf(s, pat, 1), pat, rep)

\* String.prototype.replace(/\\/g, '/')
backslashToSlash(s) == [i \in 1..Len(s) |-> IF s[i] = "\\" THEN "/" ELSE s[i]]

\* the least element of a set of positions (0 for the empty set)
Least(S) == IF S = {} THEN 0 ELSE CHOOSE j \in S : \A k \in S : j <= k

(***************************************************************************)
(* node's path module, POSIX flavour                                       *)
(***************************************************************************)
RECURSIVE Split(_)
Split(s) ==
  IF \A j \in 1..Len(s) : s[j] # "/" THEN <<s>>
  ELSE <<SubSeq(s, 1, SkipNotIn(s, 1, {"/"}) - 1)>> \o Split(From(s, SkipNotIn(s, 1, {"/"}) + 1))

RECURSIVE JoinSegs(_)
JoinSegs(segs) ==
  IF segs = <<>> THEN <<>>
  ELSE IF Len(segs) = 1 THEN segs[1]
  ELSE segs[1] \o <<"/">> \o JoinSegs(Tail(segs))

\* normalizeString: drop '' and '.', resolve '..' against the segment before it
RECURSIVE normalizeString(_, _, _)
normalizeString(segs, res, allowAboveRoot) ==
  IF segs = <<>> THEN res
  ELSE IF Head(segs) = <<>> \/ Head(segs) = <<".">>
       THEN normalizeString(Tail(segs), res, allowAboveRoot)
  ELSE IF Head(segs) = <<".",".">>
       THEN IF res # <<>> /\ Last(res) # <<".",".">>
            THEN normalizeString(Tail(segs), SubSeq(res, 1, Len(res) - 1), allowAboveRoot)
            ELSE IF allowAboveRoot
                 THEN normalizeString(Tail(segs), Append(res, Head(segs)), allowAboveRoot)
                 ELSE normalizeString(Tail(segs), res, allowAboveRoot)
  ELSE normalizeString(Tail(segs), Append(res, Head(segs)), allowAboveRoot)

isAbsolute(p) == Len(p) > 0 /\ p[1] = "/"

\* the tail of path.normalize: np is the normalized string of p
normalized(p, np) ==
  IF Len(np) = 0
  THEN IF isAbsolute(p) THEN <<"/">> ELSE IF Last(p) = "/" THEN <<".","/">> ELSE <<".">>
  ELSE (IF isAbsolute(p) THEN <<"/">> ELSE <<>>) \o np \o (IF Last(p) = "/" THEN <<"/">> ELSE <<>>)

\* path.normalize
normalize(p) ==
  IF Len(p) = 0 THEN <<".">>
  ELSE normalized(p, JoinSegs(normalizeString(Split(p), <<>>, ~isAbsolute(p))))

\* path.join of two arguments
join(a, b) ==
  IF Len(a) = 0 /\ Len(b) = 0 THEN <<".">>
  ELSE IF Len(a) = 0 THEN normalize(b)
  ELSE IF Len(b) = 0 THEN normalize(a)
  ELSE normalize(a \o <<"/">> \o b)

\* the last position in lo..hi of p that holds a '/' (slash = TRUE) or another
\* character (slash = FALSE); 0 if none
lastIndex(p, lo, hi, slash) ==
  IF \E i \in lo..hi : (p[i] = "/") = slash
  THEN CHOOSE i \in lo..hi : (p[i] = "/") = slash /\ \A j \in (i+1)..hi : (p[j] = "/") # slash
  ELSE 0

\* path.dirname, k being the position of the slash that ends the directory part
dirnameAt(p, k) ==
  IF k = 0 THEN (IF isAbsolute(p) THEN <<"/">> ELSE <<".">>)
  ELSE IF isAbsolute(p) /\ k = 2 THEN <<"/","/">>
  ELSE SubSeq(p, 1, k - 1)

\* path.dirname: trailing slashes are skipped, the loop stops before position 1
dirname(p) ==
  IF Len(p) = 0 THEN <<".">>
  ELSE dirnameAt(p, lastIndex(p, 2, lastIndex(p, 2, Len(p), FALSE) - 1, TRUE))

\* path.basename, l being the position of the last character that is no slash
basenameAt(p, l) == IF l = 0 THEN <<>> ELSE SubSeq(p, lastIndex(p, 1, l - 1, TRUE) + 1, l)

\* path.basename (no suffix argument)
basename(p) == basenameAt(p, lastIndex(p, 1, Len(p), FALSE))

\* path.resolve of one absolute path, as its list of segments
resolveSegs(p) == normalizeString(Split(p), <<>>, FALSE)

RECURSIVE commonPrefix(_, _)
commonPrefix(a, b) ==
  IF a = <<>> \/ b = <<>> \/ Head(a) # Head(b) THEN 0
  ELSE 1 + commonPrefix(Tail(a), Tail(b))

\* one '..' per segment of f after the first k, then the segments of t after the first k
relativeSegs(f, t, k) == JoinSegs([i \in 1..(Len(f) - k) |-> <<".",".">>] \o SubSeq(t, k + 1, Len(t)))

\* path.relative of two absolute paths
relative(from, to) ==
  relativeSegs(resolveSegs(from), resolveSegs(to),
               commonPrefix(resolveSegs(from), resolveSegs(to)))

(***************************************************************************)
(* Directory constants of the scripts                                      *)
(***************************************************************************)
\* __dirname: the directory the script file lives in (the project root)
ProjectDir == <<"/","r">>

SRC_DIR == join(ProjectDir, <<"s","r","c">>)

ASSETS_DIR == join(SRC_DIR, <<"a","s","s","e","t","s">>)

(***************************************************************************)
(* Regular expressions.  The pieces below take a position p of s (0: the   *)
(* match has failed already) and return the position after the piece, or   *)
(* 0.  Every quantifier of the scripts' patterns is followed by a          *)
(* character outside its class, so the greedy match is the only            *)
(* candidate; the one exception, \s+([^;]+) of the node pattern, is        *)
(* spelled out in aliasStart.                                              *)
(***************************************************************************)
\* a literal
lit(s, p, str) == IF p # 0 /\ At(s, p, str) THEN p + Len(str) ELSE 0

\* [cls]
oneOf(s, p, cls) == IF p # 0 /\ p <= Len(s) /\ s[p] \in cls THEN p + 1 ELSE 0

\* [cls]+
plus(s, p, cls) == IF p # 0 /\ SkipIn(s, p, cls) > p THEN SkipIn(s, p, cls) ELSE 0

\* [^cls]+
plusNot(s, p, cls) == IF p # 0 /\ SkipNotIn(s, p, cls) > p THEN SkipNotIn(s, p, cls) ELSE 0

\* [^cls]*
starNot(s, p, cls) == IF p # 0 THEN SkipNotIn(s, p, cls) ELSE 0

NoMatch == [end |-> 0]

\* ([^'"]+)['"] with the group starting at g, the opening quote being at q
aliasGroup(s, q, g) ==
  [open |-> q, from |-> g, to |-> plusNot(s, g, Quotes),
   end |-> oneOf(s, plusNot(s, g, Quotes), Quotes)]

\* ['"]@\/<prefix>([^'"]+)['"] at position q
aliasString(s, q, prefix) == aliasGroup(s, q, lit(s, oneOf(s, q, Quotes), prefix))

\* \s+as\s+ at position p
asKeyword(s, p) == plus(s, lit(s, plus(s, p, Space), <<"a","s">>), Space)

\* the match record of a pattern that ends with the quoted alias string r
quotedMatch(s, r) ==
  IF r.end = 0 THEN NoMatch
  ELSE [end |-> r.end - 1, importPath |-> SubSeq(s, r.from, r.to - 1),
        open |-> s[r.open], close |-> s[r.to]]

\* the match record of an @use pattern: e is the position after the match and
\* the alias is s[st..to]
useMatch(s, r, st, to, e) ==
  IF e = 0 THEN NoMatch
  ELSE [end |-> e - 1, importPath |-> SubSeq(s, r.from, r.to - 1),
        alias |-> SubSeq(s, st, to), open |-> s[r.open], close |-> s[r.to]]

\* ([a-z]) at position k
lowerAlias(s, r, k) == useMatch(s, r, k, k, oneOf(s, k, Lower))

\* migrate-paths.js: /@use\s+['"]@\/assets\/styles\/([^'"]+)['"]\s+as\s+([a-z])/g
scssAliasMatch(s, r) == lowerAlias(s, r, asKeyword(s, r.end))

scssAliasPattern(s, i) ==
  scssAliasMatch(s, aliasString(s, plus(s, lit(s, i, <<"@","u","s","e">>), Space), <<"@","/","a","s","s","e","t","s","/","s","t","y","l","e","s","/">>))

\* the binding clause (?:{[^}]*}|\w+|\*\s+as\s+\w+) at position p; the three
\* alternatives start with different characters
importClause(s, p) ==
  IF p = 0 \/ p > Len(s) THEN 0
  ELSE IF s[p] = "{" THEN lit(s, starNot(s, p + 1, {"}"}), <<"}">>)
  ELSE IF s[p] \in Word THEN plus(s, p, Word)
  ELSE plus(s, asKeyword(s, lit(s, p, <<"*">>)), Word)

\* migrate-paths.js:
\* /import\s+(?:{[^}]*}|\w+|\*\s+as\s+\w+)\s+from\s+['"]@\/([^'"]+)['"]/g
jsAliasPattern(s, i) ==
  quotedMatch(s,
    aliasString(s,
      plus(s, lit(s, plus(s, importClause(s, plus(s, lit(s, i, <<"i","m","p","o","r","t">>), Space)), Space),
                  <<"f","r","o","m">>), Space),
      <<"@","/">>))

\* \s+ then the start of ([^;]+), h being the position after "as" and k the first
\* position after the white space: \s+ takes the whole run; when the run is followed
\* at once by ';' the engine gives its last character back to the group
aliasStartAt(s, h, k) ==
  IF k = h \/ k > Len(s) THEN 0
  ELSE IF s[k] # ";" THEN k
  ELSE IF k - h >= 2 THEN k - 1
  ELSE 0

aliasStart(s, h) == IF h = 0 THEN 0 ELSE aliasStartAt(s, h, SkipIn(s, h, Space))

\* ([^;]+); with the group starting at st
untilSemicolon(s, r, st) ==
  useMatch(s, r, st, plusNot(s, st, {";"}) - 1, lit(s, plusNot(s, st, {";"}), <<";">>))

useAsMatch(s, r) == untilSemicolon(s, r, aliasStart(s, lit(s, plus(s, r.end, Space), <<"a","s">>)))

\* /@use\s+['"]@\/assets\/([^'"]+)['"]\s+as\s+([^;]+);/g  (both node scripts)
useAsRegex(s, i) ==
  useAsMatch(s, aliasString(s, plus(s, lit(s, i, <<"@","u","s","e">>), Space), <<"@","/","a","s","s","e","t","s","/">>))

\* /from\s+['"]@\/([^'"]+)['"]/g  (both node scripts)
fromRegex(s, i) == quotedMatch(s, aliasString(s, plus(s, lit(s, i, <<"f","r","o","m">>), Space), <<"@","/">>))

\* test-migration-node.mjs:31 (dry run)
scssRegexT(s, i) == useAsRegex(s, i)

\* test-migration-node.mjs:47 (dry run)
jsRegexT(s, i) == fromRegex(s, i)

\* test-migration-node.mjs:194 (migrate-paths-node)
scssRegex(s, i) == useAsRegex(s, i)

\* a jsRegex without the alias prefix: /from\s+['"]([^'"]+)['"]/g
jsRegexAnyPath(s, i) == quotedMatch(s, aliasString(s, plus(s, lit(s, i, <<"f","r","o","m">>), Space), <<>>))

\* test-migration-node.mjs:219 (migrate-paths-node)
jsRegex(s, i) == fromRegex(s, i)

(***************************************************************************)
(* The three getRelativePath functions                                     *)
(***************************************************************************)
\* migrate-paths.js:49-53: the './' prefix
dotPrefixed(relPath) == IF ~startsWith(relPath, <<".">>) THEN <<".","/">> \o relPath ELSE relPath

\* migrate-paths.js:44
getRelativePathA(sourcePath, destPath) == dotPrefixed(relative(dirname(sourcePath), destPath))

\* test-migration-node.mjs:22 (dry run)
getRelativePathT(sourceFile, destinationFile) ==
  backslashToSlash(relative(dirname(sourceFile), destinationFile))

\* a getRelativePath that measures from the file instead of from its directory
getRelativePathFromFile(sourceFile, destinationFile) ==
  backslashToSlash(relative(sourceFile, destinationFile))

\* test-migration-node.mjs:185 (migrate-paths-node)
getRelativePath(sourceFile, destinationFile) ==
  backslashToSlash(relative(dirname(sourceFile), destinationFile))

(***************************************************************************)
(* The replacer callbacks.  Each returns the record of one invocation:     *)
(* original (the match), updated (the text put in its place), and the      *)
(* callback's locals importPath and newPath (the path it computed).        *)
(***************************************************************************)
invocation(match, m, newPath, updated) ==
  [original |-> match, updated |-> updated, importPath |-> m.importPath,
   newPath |-> newPath, open |-> m.open, close |-> m.close]

\* migrate-paths.js:72-74
stripScss(p) == IF endsWith(p, <<".","s","c","s","s">>) THEN SubSeq(p, 1, Len(p) - 5) ELSE p

\* migrate-paths.js:68-74
cleanImportPath(importPath) ==
  stripScss(IF startsWith(importPath, <<"_">>) THEN From(importPath, 2) ELSE importPath)

\* migrate-paths.js:76
scssUpdatedA(match, m, newPath) ==
  invocation(match, m, newPath, <<"@","u","s","e"," ","'">> \o newPath \o <<"'"," ","a","s"," ">> \o m.alias)

\* migrate-paths.js:64-77
scssReplacerA(filePath, match, m) ==
  scssUpdatedA(match, m,
    getRelativePathA(filePath, join(join(SRC_DIR, <<"a","s","s","e","t","s">>), <<"s","t","y","l","e","s">>))
      \o <<"/">> \o cleanImportPath(m.importPath))

\* migrate-paths.js:89-90
jsUpdatedA(match, m, newPath) ==
  invocation(match, m, newPath,
    replaceFirst(
      replaceFirst(match, <<"'","@","/">> \o m.importPath \o <<"'">>, <<"'">> \o newPath \o <<"'">>),
      <<"\"">> \o <<"@","/">> \o m.importPath \o <<"\"">>, <<"\"">> \o newPath \o <<"\"">>))

\* a new path that forgets the directory of the target
jsNewPathNoDir(filePath, fullImportPath) == <<".","/">> \o basename(fullImportPath)

\* migrate-paths.js:86-87, `${relativePath}/${importFile}`
jsNewPathA(filePath, fullImportPath) ==
  getRelativePathA(filePath, dirname(fullImportPath)) \o <<"/">> \o basename(fullImportPath)

\* migrate-paths.js:84-91
jsReplacerA(filePath, match, m) ==
  jsUpdatedA(match, m, jsNewPathA(filePath, join(SRC_DIR, m.importPath)))

\* test-migration-node.mjs:37 (dry run)
scssNewImportT(match, m, relativePath) ==
  invocation(match, m, relativePath, <<"@","u","s","e"," ","'">> \o relativePath \o <<"'"," ","a","s"," ">> \o m.alias \o <<";">>)

\* test-migration-node.mjs:34-38 (dry run)
scssReplacerT(filePath, match, m) ==
  scssNewImportT(match, m, getRelativePathT(filePath, join(ASSETS_DIR, m.importPath)))

\* test-migration-node.mjs:53 (dry run)
jsNewImportT(match, m, relativePath) ==
  invocation(match, m, relativePath, <<"f","r","o","m"," ","'">> \o relativePath \o <<"'">>)

\* test-migration-node.mjs:50-54 (dry run)
jsReplacerT(filePath, match, m) ==
  jsNewImportT(match, m, getRelativePathT(filePath, join(SRC_DIR, m.importPath)))

\* test-migration-node.mjs:202 (migrate-paths-node)
scssNewImport(match, m, relativePath) ==
  invocation(match, m, relativePath, <<"@","u","s","e"," ","'">> \o relativePath \o <<"'"," ","a","s"," ">> \o m.alias \o <<";">>)

\* test-migration-node.mjs:199-210 (migrate-paths-node)
scssReplacer(filePath, match, m) ==
  scssNewImport(match, m, getRelativePath(filePath, join(ASSETS_DIR, m.importPath)))

\* test-migration-node.mjs:227 (migrate-paths-node)
jsNewImport(match, m, relativePath) ==
  invocation(match, m, relativePath, <<"f","r","o","m"," ","'">> \o relativePath \o <<"'">>)

\* test-migration-node.mjs:224-235 (migrate-paths-node)
jsReplacer(filePath, match, m) ==
  jsNewImport(match, m, getRelativePath(filePath, join(SRC_DIR, m.importPath)))

(***************************************************************************)
(* String.prototype.replace(regex /g, callback): the leftmost match at or   *)
(* after the scan position is replaced by the callback's result, the text  *)
(* before it is copied, and the scan resumes after the match.              *)
(***************************************************************************)
exec(re, s, i) ==
  CASE re = "scssA" -> scssAliasPattern(s, i)
    [] re = "jsA" -> jsAliasPattern(s, i)
    [] re = "scssT" -> scssRegexT(s, i)
    [] re = "jsT" -> jsRegexT(s, i)
    [] re = "scssN" -> scssRegex(s, i)
    [] re = "jsN" -> jsRegex(s, i)

callback(re, filePath, match, m) ==
  CASE re = "scssA" -> scssReplacerA(filePath, match, m)
    [] re = "jsA" -> jsReplacerA(filePath, match, m)
    [] re = "scssT" -> scssReplacerT(filePath, match, m)
    [] re = "jsT" -> jsReplacerT(filePath, match, m)
    [] re = "scssN" -> scssReplacer(filePath, match, m)
    [] re = "jsN" -> jsReplacer(filePath, match, m)

\* the leftmost position >= i at which the pattern matches (0 if none)
nextMatch(re, s, i) == Least({j \in i..Len(s) : exec(re, s, j).end # 0})

RECURSIVE replaceAll(_, _, _, _, _, _)
\* a replace whose callback records each change in front of the earlier ones
replacedNewestFirst(re, filePath, s, i, out, calls, j, m, c) ==
  replaceAll(re, filePath, s, m.end + 1, out \o SubSeq(s, i, j - 1) \o c.updated, <<c>> \o calls)

\* the match m at j was replaced by invocation c: resume after it
replaced(re, filePath, s, i, out, calls, j, m, c) ==
  replaceAll(re, filePath, s, m.end + 1,
             out \o SubSeq(s, i, j - 1) \o c.updated, Append(calls, c))

\* the pattern matches at j with match record m: invoke the callback
matched(re, filePath, s, i, out, calls, j, m) ==
  replaced(re, filePath, s, i, out, calls, j, m,
           callback(re, filePath, SubSeq(s, j, m.end), m))

\* j is the next match at or after i, or 0
scanFrom(re, filePath, s, i, out, calls, j) ==
  IF j = 0 THEN [content |-> out \o From(s, i), calls |-> calls]
  ELSE matched(re, filePath, s, i, out, calls, j, exec(re, s, j))

replaceAll(re, filePath, s, i, out, calls) ==
  scanFrom(re, filePath, s, i, out, calls, nextMatch(re, s, i))

\* the originals of a list of invocations
Originals(calls) == [k \in 1..Len(calls) |-> calls[k].original]

(***************************************************************************)
(* updateScssImports / updateJsImports of the three scripts                *)
(***************************************************************************)
\* migrate-paths.js:57 -- .content is what it returns, .calls the callback invocations
updateScssImportsA(filePath, content) == replaceAll("scssA", filePath, content, 1, <<>>, <<>>)

\* migrate-paths.js:81
updateJsImportsA(filePath, content) == replaceAll("jsA", filePath, content, 1, <<>>, <<>>)

\* test-migration-node.mjs:30 (dry run): .calls.original is content.match(scssRegex)
updateScssImportsT(content, filePath) == replaceAll("scssT", filePath, content, 1, <<>>, <<>>)

\* test-migration-node.mjs:46 (dry run)
updateJsImportsT(content, filePath) == replaceAll("jsT", filePath, content, 1, <<>>, <<>>)

\* test-migration-node.mjs:193 (migrate-paths-node): .calls holds the
\* {original, updated} pairs pushed onto `modifications`
updateScssImports(content, filePath) == replaceAll("scssN", filePath, content, 1, <<>>, <<>>)

\* test-migration-node.mjs:218 (migrate-paths-node)
updateJsImports(content, filePath) == replaceAll("jsN", filePath, content, 1, <<>>, <<>>)

(***************************************************************************)
(* Inputs: the files of the source tree and the texts they may hold        *)
(***************************************************************************)
MaxFiles == 3

fApp == <<"/","r","/","s","r","c","/","A","p","p",".","v","u","e">>

fIndex == <<"/","r","/","s","r","c","/","a","s","s","e","t","s","/","s","t","y","l","e","s","/","i","n","d","e","x",".","t","s">>

fButton == <<"/","r","/","s","r","c","/","c","o","m","p","o","n","e","n","t","s","/","B","u","t","t","o","n",".","v","u","e">>

fHome == <<"/","r","/","s","r","c","/","p","a","g","e","s","/","H","o","m","e",".","v","u","e">>

\* the files in the order walkDir meets them
AllFiles == <<fApp, fIndex, fButton, fHome>>

FilePaths == {AllFiles[i] : i \in 1..Len(AllFiles)}

\* alias-relative paths of script imports: a file in another directory, a sibling
\* of Home.vue, a path with an '@' segment, a hidden directory, the directory of
\* Home.vue itself, a path that normalizes to App.vue
JsPaths == {<<"c","o","m","p","o","n","e","n","t","s","/","F","o","o",".","v","u","e">>, <<"p","a","g","e","s","/","U","t","i","l",".","t","s">>, <<"@","/","f","o","o">>, <<".","h","i","d","/","x">>, <<"p","a","g","e","s">>,
            <<"l","i","b","/",".",".","/","A","p","p",".","v","u","e">>}

\* paths of style-sheet imports under assets/styles
ScssPaths == {<<"v","a","r","i","a","b","l","e","s">>, <<"_","v","a","r","i","a","b","l","e","s",".","s","c","s","s">>, <<"s","u","b","/","_","v","a","r","i","a","b","l","e","s",".","s","c","s","s">>, <<"_","s","h","a","r","e","d","/","v","a","r","s">>,
              <<"t","h","e","m","e",".","c","s","s">>}

Clauses == {<<"F","o","o">>, <<"{"," ","a",","," ","b"," ","}">>, <<"*"," ","a","s"," ","n","s">>}

JsStmt(clause, open, P, close) ==
  <<"i","m","p","o","r","t"," ">> \o clause \o <<" ","f","r","o","m"," ">> \o <<open>> \o <<"@","/">> \o P \o <<close>> \o <<";">>

ScssStmt(open, P, close, id) ==
  <<"@","u","s","e"," ">> \o <<open>> \o <<"@","/","a","s","s","e","t","s","/","s","t","y","l","e","s","/">> \o P \o <<close>> \o <<" ","a","s"," ">> \o id \o <<";">>

JsScenario == JsStmt(<<"F","o","o">>, "'", <<"c","o","m","p","o","n","e","n","t","s","/","F","o","o",".","v","u","e">>, "'")

ScssScenario == ScssStmt("'", <<"v","a","r","i","a","b","l","e","s">>, "'", <<"v">>)

PlainImport == <<"i","m","p","o","r","t"," ","s"," ","f","r","o","m"," ","'",".","/","s","i","b","l","i","n","g","'",";">>

JsTexts ==
  {JsStmt(<<"F","o","o">>, q, P, q) : q \in Quotes, P \in JsPaths}
  \cup {JsStmt(c, q, <<"c","o","m","p","o","n","e","n","t","s","/","F","o","o",".","v","u","e">>, q) : c \in Clauses, q \in Quotes}
  \cup {JsStmt(<<"F","o","o">>, "'", <<"c","o","m","p","o","n","e","n","t","s","/","F","o","o",".","v","u","e">>, "\""),
        <<"e","x","p","o","r","t"," ","{"," ","a"," ","}"," ","f","r","o","m"," ","'","@","/","c","o","m","p","o","n","e","n","t","s","/","F","o","o",".","v","u","e","'",";">>}

ScssTexts ==
  {ScssStmt("'", P, "'", <<"v">>) : P \in ScssPaths}
  \cup {ScssStmt(q, <<"v","a","r","i","a","b","l","e","s">>, q, id) : q \in Quotes, id \in {<<"v">>, <<"v","a","r","s">>, <<"V","a","r","s">>}}
  \cup {<<"@","u","s","e"," ","'","@","/","a","s","s","e","t","s","/","f","o","n","t","s","/","f","a","c","e","'"," ","a","s"," ","f",";">>}

\* texts with no alias-prefixed import or @use
PlainTexts == {PlainImport, <<"/","/"," ","s","e","e"," ","@","/","c","o","m","p","o","n","e","n","t","s","\n","c","o","n","s","t"," ","a"," ","="," ","'","x","'",";">>, <<"@","u","s","e"," ","'",".","/","v","a","r","i","a","b","l","e","s","'"," ","a","s"," ","v",";">>}

\* alias text that is no import: inside a line comment, inside a block comment,
\* a template-interpolated path, a literal with no closing quote
CommentedImport == <<"/","/"," ","i","m","p","o","r","t"," ","F","o","o"," ","f","r","o","m"," ","'","@","/","c","o","m","p","o","n","e","n","t","s","/","F","o","o",".","v","u","e","'",";">>

UnrecognizedTexts ==
  {CommentedImport,
   <<"/","*"," ","@","u","s","e"," ","'","@","/","a","s","s","e","t","s","/","s","t","y","l","e","s","/","v","a","r","i","a","b","l","e","s","'"," ","a","s"," ","v",";"," ","*","/">>,
   <<"c","o","n","s","t"," ","m"," ","="," ","i","m","p","o","r","t","(","`","@","/","p","a","g","e","s","/","$","{","n","}",".","v","u","e","`",")",";">>,
   <<"i","m","p","o","r","t"," ","F","o","o"," ","f","r","o","m"," ","'","@","/","c","o","m","p","o","n","e","n","t","s","/","F","o","o",".","v","u","e",";">>}

MixedTexts ==
  {ScssScenario \o <<"\n">> \o JsScenario,
   JsScenario \o <<"\n">> \o ScssScenario,
   JsScenario \o <<"\n">> \o JsStmt(<<"{"," ","a",","," ","b"," ","}">>, "\"", <<"p","a","g","e","s","/","U","t","i","l",".","t","s">>, "\""),
   PlainImport \o <<"\n">> \o JsScenario,
   JsScenario \o <<"\n">> \o JsScenario,
   ScssScenario \o <<"\n">> \o ScssStmt("'", <<"_","v","a","r","i","a","b","l","e","s",".","s","c","s","s">>, "'", <<"w">>)}

Texts == JsTexts \cup ScssTexts \cup PlainTexts \cup MixedTexts \cup UnrecognizedTexts

\* the texts of the files of a tree of several files
RunTexts == {JsScenario, ScssScenario, PlainImport}

Min(a, b) == IF a < b THEN a ELSE b

\* a source tree: one file holding any text, or the first n files of AllFiles
\* holding texts of RunTexts
Trees ==
  {[f \in {p} |-> t] : p \in FilePaths, t \in Texts}
  \cup UNION {[{AllFiles[i] : i \in 1..n} -> RunTexts] : n \in 2..Min(MaxFiles, Len(AllFiles))}

Impls == {"A", "N", "T"}

(***************************************************************************)
(* State                                                                   *)
(***************************************************************************)
VARIABLES
  impl,          \* the script that runs: "A", "N" or "T"
  disk,          \* the source tree: file path -> text
  orig,          \* the tree as it was when the script started (history)
  pc,            \* where the script is
  files,         \* the list walkDir returned
  idx,           \* position of the for-of loop in files
  cur,           \* the file the locals below belong to (<<>> before the first)
  content,       \* the text read from cur
  finalContent,  \* the text after both updates (updatedContent in the dry run)
  scssCalls,     \* invocations of the @use replacer on cur, in order
  jsCalls,       \* invocations of the import replacer on cur, in order
  modifiedScss,  \* dry run: content.match(scssRegex)
  modifiedJs,    \* dry run: contentWithScssUpdated.match(jsRegex)
  totals,        \* totalModifiedFiles, totalScssModifications, totalJsModifications
  writes,        \* the fs.writeFile calls on source files that succeeded, in order
  errors,        \* what console.error reported, in order
  configLog      \* the config updates that ran, with their outcome

vars == <<impl, disk, orig, pc, files, idx, cur, content, finalContent, scssCalls,
          jsCalls, modifiedScss, modifiedJs, totals, writes, errors, configLog>>

locals == <<cur, content, finalContent, scssCalls, jsCalls, modifiedScss, modifiedJs>>

Init ==
  /\ impl \in Impls
  /\ disk \in Trees
  /\ orig = disk
  /\ pc = IF impl = "T" THEN "access" ELSE "walk"
  /\ files = <<>>
  /\ idx = 0
  /\ cur = <<>>
  /\ content = <<>>
  /\ finalContent = <<>>
  /\ scssCalls = <<>>
  /\ jsCalls = <<>>
  /\ modifiedScss = <<>>
  /\ modifiedJs = <<>>
  /\ totals = [files |-> 0, scss |-> 0, js |-> 0]
  /\ writes = <<>>
  /\ errors = <<>>
  /\ configLog = <<>>

\* walkDir(SRC_DIR): the files of the tree, in directory order
walkDir(tree) == SelectSeq(AllFiles, LAMBDA p : p \in DOMAIN tree)

\* the for-of loop moves to the next file, or ends and the config updates follow
NextFile ==
  /\ idx' = idx + 1
  /\ pc' = IF idx + 1 > Len(files) THEN "vite" ELSE "read"

\* a failed fs.writeFile leaves the file as it was or truncated
FailedWrite(file) == {disk, [disk EXCEPT ![file] = <<>>]}

(***************************************************************************)
(* migrateAliasToRelative, both scripts: const files = await walkDir(...)  *)
(***************************************************************************)
Walk ==
  /\ pc = "walk"
  /\ \/ /\ files' = walkDir(disk)
        /\ idx' = 1
        /\ pc' = IF Len(walkDir(disk)) >= 1 THEN "read" ELSE "vite"
        /\ UNCHANGED errors
     \/ \* readdir or stat throws: the outer catch ends the run
        /\ errors' = Append(errors, <<"w","a","l","k","D","i","r">>)
        /\ pc' = "done"
        /\ UNCHANGED <<files, idx>>
  /\ UNCHANGED <<impl, disk, orig, locals, totals, writes, configLog>>

(***************************************************************************)
(* One iteration of the loop, up to the write.  s and j are the results of *)
(* the two updates of the text of file.                                    *)
(***************************************************************************)
Transformed(file, s, j) ==
  /\ cur' = file
  /\ content' = disk[file]
  /\ finalContent' = j.content
  /\ scssCalls' = s.calls
  /\ jsCalls' = j.calls
  /\ IF j.content # disk[file]
     THEN pc' = "write" /\ UNCHANGED idx
     ELSE NextFile

\* migrate-paths.js:155
ScssUpdatedA(file, s) == Transformed(file, s, updateJsImportsA(file, s.content))

\* migrate-paths.js:146-165
ProcessFileA ==
  /\ impl = "A"
  /\ pc = "read"
  /\ \/ \* fs.readFile throws: the inner catch reports the file
        /\ errors' = Append(errors, files[idx])
        /\ NextFile
        /\ UNCHANGED locals
     \/ /\ ScssUpdatedA(files[idx], updateScssImportsA(files[idx], disk[files[idx]]))
        /\ UNCHANGED <<modifiedScss, modifiedJs, errors>>
  /\ UNCHANGED <<impl, disk, orig, files, totals, writes, configLog>>

\* await fs.writeFile(file, content, 'utf8')
WriteFileA ==
  /\ impl = "A"
  /\ pc = "write"
  /\ \/ /\ disk' = [disk EXCEPT ![cur] = finalContent]
        /\ writes' = Append(writes, [file |-> cur, text |-> finalContent])
        /\ UNCHANGED errors
     \/ /\ disk' \in FailedWrite(cur)
        /\ errors' = Append(errors, cur)
        /\ UNCHANGED writes
  /\ NextFile
  /\ UNCHANGED <<impl, orig, files, locals, totals, configLog>>

\* updateViteConfig: read, replace, write; any failure is caught and reported
UpdateViteConfigA ==
  /\ impl = "A"
  /\ pc = "vite"
  /\ \E r \in {"updated", "error"} :
       configLog' = Append(configLog, [file |-> "vite.config.ts", result |-> r])
  /\ pc' = "ts"
  /\ UNCHANGED <<impl, disk, orig, files, idx, locals, totals, writes, errors>>

UpdateTsConfigA ==
  /\ impl = "A"
  /\ pc = "ts"
  /\ \E r \in {"updated", "error"} :
       configLog' = Append(configLog, [file |-> "tsconfig.json", result |-> r])
  /\ pc' = "done"
  /\ UNCHANGED <<impl, disk, orig, files, idx, locals, totals, writes, errors>>

(***************************************************************************)
(* migrate-paths-node                                                      *)
(***************************************************************************)
\* test-migration-node.mjs:341
ScssUpdatedN(filePath, s) == Transformed(filePath, s, updateJsImports(s.content, filePath))

\* test-migration-node.mjs:334-368, up to the write
ProcessFileN ==
  /\ impl = "N"
  /\ pc = "read"
  /\ \/ \* fs.readFile throws: the inner catch reports the file
        /\ errors' = Append(errors, files[idx])
        /\ NextFile
        /\ UNCHANGED locals
     \/ /\ ScssUpdatedN(files[idx], updateScssImports(disk[files[idx]], files[idx]))
        /\ UNCHANGED <<modifiedScss, modifiedJs, errors>>
  /\ UNCHANGED <<impl, disk, orig, files, totals, writes, configLog>>

\* a write with no try/catch around the iteration: a failure ends the run
WriteFileNAborts ==
  /\ impl = "N"
  /\ pc = "write"
  /\ \/ /\ disk' = [disk EXCEPT ![cur] = finalContent]
        /\ writes' = Append(writes, [file |-> cur, text |-> finalContent])
        /\ totals' = [files |-> totals.files + 1,
                      scss |-> totals.scss + Len(scssCalls),
                      js |-> totals.js + Len(jsCalls)]
        /\ UNCHANGED errors
        /\ NextFile
     \/ /\ disk' \in FailedWrite(cur)
        /\ errors' = Append(errors, cur)
        /\ pc' = "done"
        /\ UNCHANGED <<writes, totals, idx>>
  /\ UNCHANGED <<impl, orig, files, locals, configLog>>

\* await fs.writeFile(filePath, finalContent, 'utf8'), then the counters
WriteFileN ==
  /\ impl = "N"
  /\ pc = "write"
  /\ \/ /\ disk' = [disk EXCEPT ![cur] = finalContent]
        /\ writes' = Append(writes, [file |-> cur, text |-> finalContent])
        /\ totals' = [files |-> totals.files + 1,
                      scss |-> totals.scss + Len(scssCalls),
                      js |-> totals.js + Len(jsCalls)]
        /\ UNCHANGED errors
     \/ /\ disk' \in FailedWrite(cur)
        /\ errors' = Append(errors, cur)
        /\ UNCHANGED <<writes, totals>>
  /\ NextFile
  /\ UNCHANGED <<impl, orig, files, locals, configLog>>

\* updateViteConfig: commented out when the alias block is found, else left alone
UpdateViteConfigN ==
  /\ impl = "N"
  /\ pc = "vite"
  /\ \E r \in {"updated", "absent", "error"} :
       configLog' = Append(configLog, [file |-> "vite.config.ts", result |-> r])
  /\ pc' = "ts"
  /\ UNCHANGED <<impl, disk, orig, files, idx, locals, totals, writes, errors>>

\* updateTsConfig: the '@/*' mapping removed when present; malformed JSON is caught
UpdateTsConfigN ==
  /\ impl = "N"
  /\ pc = "ts"
  /\ \E r \in {"updated", "absent", "error"} :
       configLog' = Append(configLog, [file |-> "tsconfig.json", result |-> r])
  /\ pc' = "done"
  /\ UNCHANGED <<impl, disk, orig, files, idx, locals, totals, writes, errors>>

(***************************************************************************)
(* test-migration-node.mjs: the dry run of one file, args[0]               *)
(***************************************************************************)
\* await fs.access(fileFullPath): process.exit(1) when it fails
AccessT ==
  /\ impl = "T"
  /\ pc = "access"
  /\ \E targetFile \in DOMAIN disk :
       \/ /\ files' = <<targetFile>>
          /\ pc' = "readT"
          /\ UNCHANGED errors
       \/ /\ errors' = Append(errors, targetFile)
          /\ pc' = "exit"
          /\ UNCHANGED files
  /\ UNCHANGED <<impl, disk, orig, idx, locals, totals, writes, configLog>>

\* test-migration-node.mjs:79-117: the second update and the preview
Previewed(fileFullPath, s, j) ==
  /\ cur' = fileFullPath
  /\ content' = disk[fileFullPath]
  /\ finalContent' = j.content
  /\ scssCalls' = s.calls
  /\ jsCalls' = j.calls
  /\ modifiedScss' = Originals(s.calls)
  /\ modifiedJs' = Originals(j.calls)

\* test-migration-node.mjs:79
ScssUpdatedT(fileFullPath, s) ==
  Previewed(fileFullPath, s, updateJsImportsT(s.content, fileFullPath))

\* test-migration-node.mjs:75-121: read, both updates, the preview; nothing is written
TestMigration ==
  /\ impl = "T"
  /\ pc = "readT"
  /\ \/ /\ errors' = Append(errors, files[1])
        /\ UNCHANGED locals
     \/ /\ ScssUpdatedT(files[1], updateScssImportsT(disk[files[1]], files[1]))
        /\ UNCHANGED errors
  /\ pc' = "done"
  /\ UNCHANGED <<impl, disk, orig, files, idx, totals, writes, configLog>>

Next ==
  \/ Walk
  \/ ProcessFileA
  \/ WriteFileA
  \/ UpdateViteConfigA
  \/ UpdateTsConfigA
  \/ ProcessFileN
  \/ WriteFileN
  \/ UpdateViteConfigN
  \/ UpdateTsConfigN
  \/ AccessT
  \/ TestMigration

Spec == Init /\ [][Next]_vars

(***************************************************************************)
(* Properties                                                              *)
(***************************************************************************)
calls == scssCalls \o jsCalls

Range(q) == {q[k] : k \in 1..Len(q)}

\* the rewrite of text t of file f by the script i, as [content, scss, js]
Rewrite(i, f, t) ==
  LET s == CASE i = "A" -> updateScssImportsA(f, t)
             [] i = "N" -> updateScssImports(t, f)
             [] i = "T" -> updateScssImportsT(t, f)
      j == CASE i = "A" -> updateJsImportsA(f, s.content)
             [] i = "N" -> updateJsImports(s.content, f)
             [] i = "T" -> updateJsImportsT(s.content, f)
  IN [content |-> j.content, scss |-> s.calls, js |-> j.calls]

\* the invocations that changed their match
Changes(cs) == SelectSeq(cs, LAMBDA c : c.updated # c.original)

\* C1: for every script import the rewriter met, the path it computed, joined
\* against the directory of the importing file and normalized, is the alias root
\* joined with the alias-relative path.
C1_RoundTrip ==
  \A k \in 1..Len(jsCalls) :
    join(dirname(cur), jsCalls[k].newPath) = join(SRC_DIR, jsCalls[k].importPath)

C1_Witness ==
  /\ impl = "A"
  /\ cur = fApp
  /\ Len(jsCalls) = 1
  /\ jsCalls[1].importPath = <<"l","i","b","/",".",".","/","A","p","p",".","v","u","e">>
  /\ jsCalls[1].newPath = <<".","/","/","A","p","p",".","v","u","e">>

\* begins with './' or '../', forward slashes only, no trailing slash, no '//'
WellShaped(p) ==
  /\ startsWith(p, <<".","/">>) \/ startsWith(p, <<".",".","/">>)
  /\ ~Contains(p, <<"\\">>)
  /\ Last(p) # "/"
  /\ ~Contains(p, <<"/","/">>)

\* C2: every path that migrate-paths.js or migrate-paths-node computes for a
\* rewritten import begins with './' or '../', uses forward slashes only, has no
\* trailing slash and no empty segment.
C2_PathShape ==
  impl \in {"A", "N"} => \A k \in 1..Len(calls) : WellShaped(calls[k].newPath)

\* C3: applying the rewrite of migrate-paths.js or migrate-paths-node to the
\* output of a first rewrite returns that output unchanged and records no change.
C3_Idempotent ==
  (impl \in {"A", "N"} /\ cur # <<>>) =>
    LET again == Rewrite(impl, cur, finalContent)
    IN /\ again.content = finalContent
       /\ Changes(again.scss) = <<>>
       /\ Changes(again.js) = <<>>
       /\ impl # "A" => again.scss = <<>> /\ again.js = <<>>

\* no quote of t is followed by the alias prefix
NoAlias(t) == ~Contains(t, <<"'","@","/">>) /\ ~Contains(t, <<"\"", "@", "/">>)

\* C4: a text with no alias-prefixed import or @use is returned unchanged with no
\* change recorded; the loop does not write the file and does not count it.
C4_NoOp ==
  /\ (cur # <<>> /\ NoAlias(content)) =>
       /\ finalContent = content
       /\ calls = <<>>
       /\ pc # "write"
  /\ \A k \in 1..Len(writes) : ~NoAlias(orig[writes[k].file])
  /\ \A f \in DOMAIN disk : NoAlias(orig[f]) => disk[f] = orig[f]
  /\ totals.files = (IF impl = "N" THEN Len(writes) ELSE 0)
  /\ (\A f \in DOMAIN orig : NoAlias(orig[f])) => totals.scss = 0 /\ totals.js = 0

C4_Witness ==
  /\ impl = "N"
  /\ pc = "done"
  /\ Len(files) = 2
  /\ orig[files[1]] = JsScenario
  /\ orig[files[2]] = PlainImport
  /\ Len(writes) = 1
  /\ totals = [files |-> 1, scss |-> 0, js |-> 1]
  /\ errors = <<>>

\* C5: every import or @use rewritten by migrate-paths.js or migrate-paths-node
\* holds its new path between the quote characters of the original.
C5_QuotesKept ==
  impl \in {"A", "N"} =>
    \A k \in 1..Len(calls) :
      calls[k].open = calls[k].close =>
        Contains(calls[k].updated, <<calls[k].open>> \o calls[k].newPath \o <<calls[k].close>>)

\* a segment without its leading underscore and its extension
PartialName(seg) ==
  LET t == IF startsWith(seg, <<"_">>) THEN From(seg, 2) ELSE seg
      dots == {i \in 2..Len(t) : t[i] = "."}
  IN IF dots = {} THEN t
     ELSE SubSeq(t, 1, (CHOOSE i \in dots : \A j \in dots : j <= i) - 1)

\* the path P with its final segment made a partial name
PartialPath(P) ==
  LET segs == Split(P)
  IN JoinSegs(SubSeq(segs, 1, Len(segs) - 1) \o <<PartialName(Last(segs))>>)

\* C6: the path of a rewritten @use ends with the segments of the imported path,
\* the final one without its leading underscore and extension.
C6_PartialStripped ==
  impl \in {"A", "N"} =>
    \A k \in 1..Len(scssCalls) :
      endsWith(scssCalls[k].newPath, <<"/">> \o PartialPath(scssCalls[k].importPath))

WellFormedJs ==
  {[clause |-> c, quote |-> q, path |-> P] : c \in Clauses, q \in Quotes, P \in JsPaths}

\* C7 (migrate-paths.js): an import in default, named-list or namespace form is
\* rewritten to the same statement with the computed relative path between the
\* same quotes; in Home.vue '@/components/Foo.vue' becomes '../components/Foo.vue'.
C7_ScriptForm ==
  (impl = "A" /\ cur # <<>>) =>
    /\ \A w \in WellFormedJs :
         content = JsStmt(w.clause, w.quote, w.path, w.quote) =>
           /\ Len(jsCalls) = 1
           /\ join(dirname(cur), jsCalls[1].newPath) = join(SRC_DIR, w.path)
           /\ finalContent = <<"i","m","p","o","r","t"," ">> \o w.clause \o <<" ","f","r","o","m"," ">> \o <<w.quote>>
                               \o jsCalls[1].newPath \o <<w.quote>> \o <<";">>
    /\ \A k \in 1..Len(jsCalls) :
         LET c == jsCalls[k]
             n == Len(c.original) - Len(c.importPath) - 4
         IN c.open = c.close =>
              c.updated = SubSeq(c.original, 1, n) \o <<c.open>> \o c.newPath \o <<c.close>>
    /\ (cur = fHome /\ content = JsScenario) =>
         finalContent = <<"i","m","p","o","r","t"," ","F","o","o"," ","f","r","o","m"," ","'",".",".","/","c","o","m","p","o","n","e","n","t","s","/","F","o","o",".","v","u","e","'",";">>

C7_Witness ==
  /\ impl = "A"
  /\ cur = fHome
  /\ content = JsStmt(<<"*"," ","a","s"," ","n","s">>, "\"", <<"c","o","m","p","o","n","e","n","t","s","/","F","o","o",".","v","u","e">>, "\"")
  /\ finalContent = <<"i","m","p","o","r","t"," ","*"," ","a","s"," ","n","s"," ","f","r","o","m"," ","\"",".",".","/","c","o","m","p","o","n","e","n","t","s","/","F","o","o",".","v","u","e","\"",";">>

ScssIds == {<<"v">>, <<"v","a","r","s">>, <<"V","a","r","s">>}

\* C8 (migrate-paths.js): every @use of the alias form is rewritten to an @use of
\* the relative path to the imported file (or to its partial name) under
\* assets/styles, with the identifier and the ';' kept; in Button.vue
\* '@/assets/styles/variables' becomes '../assets/styles/variables'.
C8_StyleForm ==
  (impl = "A" /\ cur # <<>>) =>
    /\ \A q \in Quotes, P \in ScssPaths, id \in ScssIds :
         content = ScssStmt(q, P, q, id) =>
           /\ Len(scssCalls) = 1
           /\ join(dirname(cur), scssCalls[1].newPath)
                \in {join(join(ASSETS_DIR, <<"s","t","y","l","e","s">>), P),
                     join(join(ASSETS_DIR, <<"s","t","y","l","e","s">>), PartialPath(P))}
           /\ \E q2 \in Quotes :
                finalContent = <<"@","u","s","e"," ">> \o <<q2>> \o scssCalls[1].newPath \o <<q2>>
                                 \o <<" ","a","s"," ">> \o id \o <<";">>
    /\ (cur = fButton /\ content = ScssScenario) =>
         finalContent = <<"@","u","s","e"," ","'",".",".","/","a","s","s","e","t","s","/","s","t","y","l","e","s","/","v","a","r","i","a","b","l","e","s","'"," ","a","s"," ","v",";">>

\* the failed files of the run are those console.error reported
Reported(f) == f \in Range(errors)

\* the texts the run wrote to f
Written(f) == {writes[k].text : k \in {j \in 1..Len(writes) : writes[j].file = f}}

\* C9: when the loop ends, every file that was not reported holds the rewrite of
\* its text, whatever happened to the other files, and a reported file is as it
\* was or truncated; the config updates then run and leave the files alone.
C9_Isolation ==
  (impl \in {"A", "N"} /\ <<"w","a","l","k","D","i","r">> \notin Range(errors)) =>
    /\ pc \in {"vite", "ts", "done"} => idx = Len(files) + 1
    /\ pc = "vite" =>
         \A k \in 1..Len(files) :
           IF Reported(files[k])
           THEN disk[files[k]] \in {orig[files[k]], <<>>}
           ELSE disk[files[k]] = Rewrite(impl, files[k], orig[files[k]]).content
    /\ pc \in {"ts", "done"} =>
         \A k \in 1..Len(files) :
           \/ Reported(files[k])
           \/ Written(files[k]) = {disk[files[k]]}
           \/ Written(files[k]) = {} /\ disk[files[k]] = orig[files[k]]
    /\ pc = "done" =>
         /\ Len(configLog) = 2
         /\ configLog[1].file = "vite.config.ts"
         /\ configLog[2].file = "tsconfig.json"

C9_Witness ==
  /\ impl = "N"
  /\ pc = "done"
  /\ Len(files) = 3
  /\ orig[files[1]] = JsScenario
  /\ orig[files[3]] = ScssScenario
  /\ errors = <<files[1]>>
  /\ disk[files[1]] = <<>>
  /\ disk[files[3]] = <<"@","u","s","e"," ","'",".",".","/","a","s","s","e","t","s","/","s","t","y","l","e","s","/","v","a","r","i","a","b","l","e","s","'"," ","a","s"," ","v",";">>
  /\ Len(configLog) = 2

\* C10: the text the dry run computes is the text each migration script writes
\* for the same file, and the dry run writes nothing.
C10_DryRunEqualsRun ==
  (impl = "T" /\ cur # <<>>) =>
    /\ finalContent = Rewrite("N", cur, content).content
    /\ finalContent = Rewrite("A", cur, content).content
    /\ writes = <<>>
    /\ disk = orig

\* the dry run against migrate-paths-node alone
DryRunEqualsNodeRun ==
  (impl = "T" /\ cur # <<>>) =>
    /\ finalContent = Rewrite("N", cur, content).content
    /\ writes = <<>>
    /\ disk = orig

\* C11: text that is no import statement (an alias import inside a comment, a
\* template-interpolated path, a literal with no closing quote) matches neither
\* pattern of migrate-paths.js or migrate-paths-node and comes back unchanged
\* with no change recorded.
C11_PassThrough ==
  (impl \in {"A", "N"} /\ cur # <<>> /\ content \in UnrecognizedTexts) =>
    /\ finalContent = content
    /\ calls = <<>>

\* test-migration-node.mjs:352-360: the changes of a file in the order the run
\* prints them, the style-sheet ones first
logged == scssCalls \o jsCalls
\* the strings of list occur in text one after another, from position i on
RECURSIVE InOrderFrom(_, _, _, _)
InOrderFrom(text, list, k, i) ==
  IF k > Len(list) THEN TRUE
  ELSE /\ IndexOf(text, list[k], i) # 0
       /\ InOrderFrom(text, list, k + 1, IndexOf(text, list[k], i) + Len(list[k]))

InOrder(text, list) == InOrderFrom(text, list, 1, 1)

Updateds(cs) == [k \in 1..Len(cs) |-> cs[k].updated]

\* the number of positions of text at which a pattern of migrate-paths-node matches
Matches(re, text) == Cardinality({j \in 1..Len(text) : exec(re, text, j).end # 0})

\* C12 (as stated): the changes migrate-paths-node emits for a file are in the
\* order their statements occur in the text, one per matched occurrence, also
\* when a script import stands before an @use.
C12_DocumentOrder ==
  (impl = "N" /\ cur # <<>>) =>
    /\ InOrder(content, Originals(logged))
    /\ Len(logged) = Matches("scssN", content) + Matches("jsN", content)

\* C12 (amended): within each pattern family the changes migrate-paths-node
\* records for a file are in the order their statements occur in the text, and
\* their replacements in the order they occur in the output, one per matched
\* occurrence.
C12_FamilyOrder ==
  (impl = "N" /\ cur # <<>>) =>
    /\ InOrder(content, Originals(scssCalls))
    /\ InOrder(content, Originals(jsCalls))
    /\ InOrder(finalContent, Updateds(scssCalls))
    /\ InOrder(finalContent, Updateds(jsCalls))
    /\ Len(scssCalls) = Matches("scssN", content)
    /\ Len(jsCalls) = Matches("jsN", content)

C12_Witness ==
  /\ impl = "N"
  /\ cur = fHome
  /\ content = JsScenario \o <<"\n">> \o JsStmt(<<"{"," ","a",","," ","b"," ","}">>, "\"", <<"p","a","g","e","s","/","U","t","i","l",".","t","s">>, "\"")
  /\ Len(jsCalls) = 2
  /\ jsCalls[1].importPath = <<"c","o","m","p","o","n","e","n","t","s","/","F","o","o",".","v","u","e">>
  /\ jsCalls[2].importPath = <<"p","a","g","e","s","/","U","t","i","l",".","t","s">>

====
